---- MODULE Spec2Model ----
(***************************************************************************)
(* FeatBit documentation query assistant (scripts/query.py).               *)
(*                                                                         *)
(* FeatBitDocFinder.find_pages, FeatBitDocFinder.get_all_pages,            *)
(* FeatBitAnswer.ask and FeatBitAnswer.format_answer_prompt are stateless  *)
(* functions over two static tables.  The state of the model is the last   *)
(* call: its arguments, the locals find_pages computes, and the value      *)
(* returned.  No call leaves anything behind for the next one, so a        *)
(* behaviour is one call made from the initial state.  Strings that are    *)
(* searched are sequences of one-character strings; a prompt is the        *)
(* sequence of its lines.                                                  *)
(***************************************************************************)
EXTENDS Integers, Sequences, FiniteSets, TLC

\* ---------------------------------------------------------------- bounds
MaxWords == 2       \* words in a question
MaxDocs == 2        \* elements of page_contents
MaxSeed == 2        \* hash seeds that order the iteration of a Python set
MaxClock == 1       \* readings of datetime.now()

\* Python's None
None == "None"

\* ---------------------------------------------------------------- strings
UpperLetters ==
  <<"A","B","C","D","E","F","G","H","I","J","K","L","M",
    "N","O","P","Q","R","S","T","U","V","W","X","Y","Z">>
LowerLetters ==
  <<"a","b","c","d","e","f","g","h","i","j","k","l","m",
    "n","o","p","q","r","s","t","u","v","w","x","y","z">>

UpperSet == {UpperLetters[i] : i \in DOMAIN UpperLetters}
LowerSet == {LowerLetters[i] : i \in DOMAIN LowerLetters}

\* the lowercase letter of each uppercase letter, and the reverse
LowerOf == [c \in UpperSet |-> LowerLetters[CHOOSE i \in DOMAIN UpperLetters : UpperLetters[i] = c]]
UpperOf == [c \in LowerSet |-> UpperLetters[CHOOSE i \in DOMAIN LowerLetters : LowerLetters[i] = c]]

LowerCharIdentity(c) == c
\* str.lower() on one character: cased letters map to lowercase, all else kept
LowerChar(c) == IF c \in UpperSet THEN LowerOf[c] ELSE c

\* str.upper() on one character
UpperChar(c) == IF c \in LowerSet THEN UpperOf[c] ELSE c

\* question.lower()
lower(s) == [i \in 1..Len(s) |-> LowerChar(s[i])]

\* kw in question_lower  (substring test)
Contains(kw, s) ==
  \E i \in 1..(Len(s) - Len(kw) + 1) :
     \A j \in 1..Len(kw) : s[i + j - 1] = kw[j]

\* any(kw in question_lower for kw in keywords)
AnyKeyword(keywords, s) ==
  \E n \in DOMAIN keywords : Contains(keywords[n], s)

RECURSIVE Join(_)
\* the text of a character sequence, as interpolated by an f-string
Join(s) == IF Len(s) = 0 THEN "" ELSE s[1] \o Join(Tail(s))

\* ---------------------------------------------------------------- tables
PAGES ==
  <<
    [category |-> "sdk", pages |-> <<
        [subtopic |-> "overview",
         url |-> "https://docs.featbit.co/sdk/overview"],
        [subtopic |-> "javascript",
         url |-> "https://github.com/featbit/featbit-js-client-sdk"],
        [subtopic |-> "react",
         url |-> "https://github.com/featbit/featbit-react-client-sdk"],
        [subtopic |-> "react-native",
         url |-> "https://github.com/featbit/featbit-react-native-sdk"],
        [subtopic |-> "node",
         url |-> "https://github.com/featbit/featbit-node-server-sdk"],
        [subtopic |-> "dotnet-server",
         url |-> "https://github.com/featbit/featbit-dotnet-sdk"],
        [subtopic |-> "dotnet-client",
         url |-> "https://github.com/featbit/featbit-dotnet-client-sdk"],
        [subtopic |-> "java",
         url |-> "https://github.com/featbit/featbit-java-sdk"],
        [subtopic |-> "python",
         url |-> "https://github.com/featbit/featbit-python-sdk"],
        [subtopic |-> "go",
         url |-> "https://github.com/featbit/featbit-go-sdk"]
      >>],
    [category |-> "deployment", pages |-> <<
        [subtopic |-> "overview",
         url |-> "https://docs.featbit.co/installation/deployment-options"],
        [subtopic |-> "docker",
         url |-> "https://docs.featbit.co/installation/docker-compose"],
        [subtopic |-> "kubernetes",
         url |-> "https://github.com/featbit/featbit-charts"],
        [subtopic |-> "helm",
         url |-> "https://github.com/featbit/featbit-charts"],
        [subtopic |-> "azure",
         url |-> "https://github.com/featbit/azure-container-apps"],
        [subtopic |-> "aws",
         url |-> "https://docs.featbit.co/installation/terraform-aws"],
        [subtopic |-> "terraform",
         url |-> "https://docs.featbit.co/installation/terraform-aws"],
        [subtopic |-> "own-infra",
         url |-> "https://docs.featbit.co/installation/use-your-own-infrastructure"]
      >>],
    [category |-> "features", pages |-> <<
        [subtopic |-> "overview",
         url |-> "https://docs.featbit.co/feature-flags/the-flag-list"],
        [subtopic |-> "creating",
         url |-> "https://docs.featbit.co/getting-started/create-two-feature-flags"],
        [subtopic |-> "targeting",
         url |-> "https://docs.featbit.co/feature-flags/targeting-users-with-flags/targeting-rules"],
        [subtopic |-> "rollouts",
         url |-> "https://docs.featbit.co/feature-flags/targeting-users-with-flags/percentage-rollouts"],
        [subtopic |-> "ab-testing",
         url |-> "https://docs.featbit.co/getting-started/how-to-guides/ab-testing"],
        [subtopic |-> "variations",
         url |-> "https://docs.featbit.co/feature-flags/create-flag-variations"]
      >>],
    [category |-> "config", pages |-> <<
        [subtopic |-> "environment",
         url |-> "https://docs.featbit.co/feature-flags/organizing-flags/environments"],
        [subtopic |-> "sdk-key",
         url |-> "https://docs.featbit.co/getting-started/connect-an-sdk"],
        [subtopic |-> "webhook",
         url |-> "https://docs.featbit.co/integrations/webhooks"],
        [subtopic |-> "segment",
         url |-> "https://docs.featbit.co/feature-flags/users-and-user-segments/user-segments"]
      >>],
    [category |-> "concepts", pages |-> <<
        [subtopic |-> "overview",
         url |-> "https://docs.featbit.co/"],
        [subtopic |-> "getting-started",
         url |-> "https://docs.featbit.co/getting-started/connect-an-sdk"]
      >>]
  >>

KEYWORDS ==
  <<
    [key |-> "sdk", keywords |-> <<
        <<"s","d","k">>,
        <<"c","l","i","e","n","t">>,
        <<"s","e","r","v","e","r">>,
        <<"i","n","t","e","g","r","a","t","i","o","n">>,
        <<"i","n","t","e","g","r","a","t","i","o","n">>,
        <<"i","n","i","t","i","a","l","i","z","e">>,
        <<"i","n","i","t","i","a","l","i","z","a","t","i","o","n">>>>],
    [key |-> "dotnet", keywords |-> <<
        <<"d","o","t","n","e","t">>,
        <<".","n","e","t">>,
        <<"c","#">>,
        <<"c","s","h","a","r","p">>>>],
    [key |-> "javascript", keywords |-> <<
        <<"j","a","v","a","s","c","r","i","p","t">>,
        <<"j","s">>,
        <<"t","y","p","e","s","c","r","i","p","t">>,
        <<"t","s">>>>],
    [key |-> "react", keywords |-> <<
        <<"r","e","a","c","t">>,
        <<"r","e","a","c","t","j","s">>>>],
    [key |-> "node", keywords |-> <<
        <<"n","o","d","e">>,
        <<"n","o","d","e","j","s">>,
        <<"n","o","d","e",".","j","s">>>>],
    [key |-> "python", keywords |-> <<
        <<"p","y","t","h","o","n">>,
        <<"p","y">>>>],
    [key |-> "go", keywords |-> <<
        <<"g","o">>,
        <<"g","o","l","a","n","g">>>>],
    [key |-> "java", keywords |-> <<
        <<"j","a","v","a">>,
        <<"k","o","t","l","i","n">>,
        <<"s","p","r","i","n","g">>>>],
    [key |-> "deployment", keywords |-> <<
        <<"d","e","p","l","o","y","m","e","n","t">>,
        <<"d","e","p","l","o","y">>,
        <<"i","n","s","t","a","l","l">>,
        <<"i","n","s","t","a","l","l","a","t","i","o","n">>,
        <<"s","e","t","u","p">>>>],
    [key |-> "docker", keywords |-> <<
        <<"d","o","c","k","e","r">>,
        <<"c","o","n","t","a","i","n","e","r">>>>],
    [key |-> "kubernetes", keywords |-> <<
        <<"k","u","b","e","r","n","e","t","e","s">>,
        <<"k","8","s">>,
        <<"k","8">>>>],
    [key |-> "helm", keywords |-> <<
        <<"h","e","l","m">>>>],
    [key |-> "azure", keywords |-> <<
        <<"a","z","u","r","e">>,
        <<"m","i","c","r","o","s","o","f","t"," ","c","l","o","u","d">>>>],
    [key |-> "aws", keywords |-> <<
        <<"a","w","s">>,
        <<"a","m","a","z","o","n">>>>],
    [key |-> "feature", keywords |-> <<
        <<"f","e","a","t","u","r","e"," ","f","l","a","g">>,
        <<"f","e","a","t","u","r","e"," ","t","o","g","g","l","e">>,
        <<"t","o","g","g","l","e">>,
        <<"f","l","a","g">>,
        <<"f","e","a","t","u","r","e">>>>],
    [key |-> "targeting", keywords |-> <<
        <<"t","a","r","g","e","t","i","n","g">>,
        <<"r","u","l","e">>,
        <<"r","u","l","e","s">>>>],
    [key |-> "rollout", keywords |-> <<
        <<"r","o","l","l","o","u","t">>,
        <<"g","r","a","d","u","a","l">>,
        <<"p","u","b","l","i","s","h">>>>],
    [key |-> "ab-test", keywords |-> <<
        <<"a","b"," ","t","e","s","t">>,
        <<"a","/","b">>,
        <<"e","x","p","e","r","i","m","e","n","t">>>>],
    [key |-> "config", keywords |-> <<
        <<"c","o","n","f","i","g","u","r","a","t","i","o","n">>,
        <<"c","o","n","f","i","g">>,
        <<"s","e","t","t","i","n","g">>,
        <<"s","e","t","t","i","n","g","s">>>>],
    [key |-> "environment", keywords |-> <<
        <<"e","n","v","i","r","o","n","m","e","n","t">>,
        <<"e","n","v">>>>],
    [key |-> "sdk-key", keywords |-> <<
        <<"s","d","k"," ","k","e","y">>,
        <<"s","e","c","r","e","t">>,
        <<"k","e","y">>>>],
    [key |-> "webhook", keywords |-> <<
        <<"w","e","b","h","o","o","k">>,
        <<"c","a","l","l","b","a","c","k">>>>]
  >>


\* the tags the platform scan accepts: the list literal of the membership test
PlatformKeys == {"dotnet", "javascript", "react", "node", "python", "go", "java"}

\* cls.KEYWORDS[key]
KeywordsOf(key) ==
  KEYWORDS[CHOOSE i \in DOMAIN KEYWORDS : KEYWORDS[i].key = key].keywords

\* category in cls.PAGES
HasCategory(category) ==
  \E i \in DOMAIN PAGES : PAGES[i].category = category

\* cls.PAGES[category]
PagesOf(category) ==
  PAGES[CHOOSE i \in DOMAIN PAGES : PAGES[i].category = category].pages

\* key in cls.PAGES[category]
HasSubtopic(category, key) ==
  \E j \in DOMAIN PagesOf(category) : PagesOf(category)[j].subtopic = key

\* cls.PAGES[category][key]
UrlOf(category, key) ==
  LET p == PagesOf(category)
  IN  p[CHOOSE j \in DOMAIN p : p[j].subtopic = key].url

\* ---------------------------------------------------------------- find_pages
RECURSIVE PlatformScan(_, _)
\* the for loop over cls.KEYWORDS.items(), from item i on
PlatformScan(question_lower, i) ==
  IF i > Len(KEYWORDS) THEN None
  ELSE IF AnyKeyword(KEYWORDS[i].keywords, question_lower)
          /\ KEYWORDS[i].key \in PlatformKeys
       THEN KEYWORDS[i].key
       ELSE PlatformScan(question_lower, i + 1)

RECURSIVE PlatformScanBreakAny(_, _)
PlatformScanBreakAny(question_lower, i) ==
  IF i > Len(KEYWORDS) THEN None
  ELSE IF AnyKeyword(KEYWORDS[i].keywords, question_lower)
       THEN IF KEYWORDS[i].key \in PlatformKeys THEN KEYWORDS[i].key ELSE None
       ELSE PlatformScanBreakAny(question_lower, i + 1)

DetectPlatformBreakAny(question_lower) == PlatformScanBreakAny(question_lower, 1)
\* 1. Detect platform/technology keywords
DetectPlatform(question_lower) == PlatformScan(question_lower, 1)

DetectCategoryFeatureFirst(question_lower) ==
  IF AnyKeyword(KeywordsOf("feature"), question_lower) THEN "features"
  ELSE IF AnyKeyword(KeywordsOf("deployment"), question_lower) THEN "deployment"
  ELSE IF AnyKeyword(KeywordsOf("config"), question_lower) THEN "config"
  ELSE IF AnyKeyword(KeywordsOf("sdk"), question_lower) THEN "sdk"
  ELSE None
\* 2. Detect category
DetectCategory(question_lower) ==
  IF AnyKeyword(KeywordsOf("deployment"), question_lower) THEN "deployment"
  ELSE IF AnyKeyword(KeywordsOf("feature"), question_lower) THEN "features"
  ELSE IF AnyKeyword(KeywordsOf("config"), question_lower) THEN "config"
  ELSE IF AnyKeyword(KeywordsOf("sdk"), question_lower) THEN "sdk"
  ELSE None

PlatformMatchOverviewUrl(category, platform) ==
  [url |-> UrlOf(category, "overview"),
   category |-> category,
   reason |-> "Matched category: " \o category \o ", platform: " \o platform]
\* Exact match: platform + category
PlatformMatch(category, platform) ==
  [url |-> UrlOf(category, platform),
   category |-> category,
   reason |-> "Matched category: " \o category \o ", platform: " \o platform]

\* Category overview page
OverviewMatch(category) ==
  [url |-> UrlOf(category, "overview"),
   category |-> category,
   reason |-> "Matched category: " \o category]

CombineResultsOverviewOnlyWithoutPlatform(category, platform) ==
  IF category # None /\ HasCategory(category)
  THEN IF platform # None /\ HasSubtopic(category, platform)
       THEN <<PlatformMatch(category, platform)>>
       ELSE IF platform = None /\ HasSubtopic(category, "overview")
            THEN <<OverviewMatch(category)>>
            ELSE <<>>
  ELSE <<>>
CombineResultsSdkLookup(category, platform) ==
  IF category # None /\ HasCategory(category)
  THEN IF platform # None /\ HasSubtopic("sdk", platform)
       THEN <<[url |-> UrlOf("sdk", platform),
               category |-> category,
               reason |-> "Matched category: " \o category \o ", platform: " \o platform]>>
       ELSE IF HasSubtopic(category, "overview")
            THEN <<OverviewMatch(category)>>
            ELSE <<>>
  ELSE <<>>
\* 3. Combine results: the list after the category/platform branches
CombineResults(category, platform) ==
  IF category # None /\ HasCategory(category)
  THEN IF platform # None /\ HasSubtopic(category, platform)
       THEN <<PlatformMatch(category, platform)>>
       ELSE IF HasSubtopic(category, "overview")
            THEN <<OverviewMatch(category)>>
            ELSE <<>>
  ELSE <<>>

FallbackRecordConceptsOverview ==
  [url |-> UrlOf("concepts", "overview"),
   category |-> "concepts",
   reason |-> "Default overview page"]
\* the record the fallback appends
FallbackRecord ==
  [url |-> "https://docs.featbit.co/docs/getting-started",
   category |-> "concepts",
   reason |-> "Default overview page"]

FallbackMissing(results) == results
\* 4. Fallback: if nothing found, return overview page
Fallback(results) ==
  IF results = <<>> THEN Append(results, FallbackRecord) ELSE results

find_pages(question) ==
  LET question_lower == lower(question)
      platform == DetectPlatform(question_lower)
      category == DetectCategory(question_lower)
  IN  Fallback(CombineResults(category, platform))

\* ---------------------------------------------------------------- get_all_pages
RECURSIVE ExtendAll(_)
\* all_urls after the loop over the categories from i on: extend(pages.values())
ExtendAll(i) ==
  IF i > Len(PAGES) THEN <<>>
  ELSE [j \in DOMAIN PAGES[i].pages |-> PAGES[i].pages[j].url] \o ExtendAll(i + 1)

RECURSIVE Enumerate(_)
Enumerate(S) ==
  IF S = {} THEN <<>>
  ELSE LET first == CHOOSE u \in S : TRUE IN <<first>> \o Enumerate(S \ {first})

\* list(set(all_urls)): each element once, in an order the hash seed decides
ListOfSet(all_urls, seed) ==
  LET e == Enumerate({all_urls[i] : i \in DOMAIN all_urls})
      n == Len(e)
  IN  [i \in 1..n |-> e[((i - 1 + seed) % n) + 1]]

get_all_pages_no_set(seed) == ExtendAll(1)
get_all_pages(seed) == ListOfSet(ExtendAll(1), seed)

\* ---------------------------------------------------------------- format_answer_prompt
\* the opening literal, up to the line break that ends it
PromptHeader(question) ==
  <<"Please answer the question based on the following FeatBit official documentation content.",
    "",
    "Question: " \o Join(question),
    "",
    "Official Documentation Content:",
    "">>

DocumentSectionNoSeparator(i, content) ==
  <<"", "## Document " \o ToString(i) \o ": " \o content.url, "">>
  \o content.content \o <<"">>
\* the three strings one loop iteration appends, as lines
DocumentSection(i, content) ==
  <<"", "## Document " \o ToString(i) \o ": " \o content.url, "">>
  \o content.content \o <<"">>
  \o <<"---">>

\* the closing literal
AnswerRequirements ==
  <<"",
    "Answer requirements:",
    "1. Answer in English (or match question language)",
    "2. Provide direct answer, do not repeat the question",
    "3. If code is involved, provide runnable code examples",
    "4. Must attach source links at the end of answer",
    "5. If no answer in docs, say \"information not found in official documentation\"">>

RECURSIVE DocumentLoop(_, _)
\* for i, content in enumerate(page_contents, 1), from element i on
DocumentLoop(page_contents, i) ==
  IF i > Len(page_contents) THEN <<>>
  ELSE DocumentSection(i, page_contents[i]) \o DocumentLoop(page_contents, i + 1)

format_answer_prompt(question, page_contents) ==
  PromptHeader(question) \o DocumentLoop(page_contents, 1) \o AnswerRequirements

\* ---------------------------------------------------------------- ask
ask(question, now) ==
  [question |-> question,
   pages |-> find_pages(question),
   fetch_needed |-> TRUE,
   timestamp |-> now]

\* ---------------------------------------------------------------- inputs
Words ==
  << <<>>,
     <<"h","o","w">>,
     <<"d","e","p","l","o","y">>,
     <<"f","e","a","t","u","r","e">>,
     <<"c","o","n","f","i","g">>,
     <<"s","e","t","t","i","n","g","s">>,
     <<"s","d","k">>,
     <<"c","l","i","e","n","t">>,
     <<".","n","e","t">>,
     <<"j","a","v","a","s","c","r","i","p","t">>,
     <<"n","o","d","e","j","s">>,
     <<"r","e","a","c","t">>,
     <<"n","o","d","e">>,
     <<"p","y","t","h","o","n">>,
     <<"g","o">>,
     <<"j","a","v","a">>,
     <<"c","a","t","e","g","o","r","y">>,
     <<"d","o","c","k","e","r">>,
     <<"r","o","l","l","o","u","t","s">>,
     <<"k","8","s">> >>

RECURSIVE JoinWords(_)
\* the words of a question, separated by single spaces
JoinWords(ws) ==
  IF Len(ws) = 0 THEN <<>>
  ELSE IF Len(ws) = 1 THEN Words[ws[1]]
  ELSE Words[ws[1]] \o <<" ">> \o JoinWords(Tail(ws))

CaseModes == {"lower", "upper", "mixed"}

\* a spelling of the question: as written, in capitals, or capitals at odd positions
ApplyCase(mode, s) ==
  [i \in 1..Len(s) |->
     IF mode = "upper" \/ (mode = "mixed" /\ i % 2 = 1) THEN UpperChar(s[i]) ELSE s[i]]

\* the questions the tests of the classifier name
HowToUseTheGoSdk ==
  <<"h","o","w"," ","t","o"," ","u","s","e"," ","t","h","e"," ","g","o"," ","s","d","k">>
DeployFeatureFlagWithDocker ==
  <<"h","o","w"," ","d","o"," ","I"," ","d","e","p","l","o","y"," ","a"," ","f","e","a","t","u","r","e"," ","f","l","a","g"," ","w","i","t","h"," ","d","o","c","k","e","r">>
DockerDeploymentUpper ==
  <<"D","O","C","K","E","R"," ","d","e","p","l","o","y","m","e","n","t">>
DockerDeploymentLower ==
  <<"d","o","c","k","e","r"," ","d","e","p","l","o","y","m","e","n","t">>

ExampleQuestions ==
  {HowToUseTheGoSdk, DeployFeatureFlagWithDocker, DockerDeploymentUpper,
   DockerDeploymentLower}

Questions ==
  ExampleQuestions \cup
  {ApplyCase(mode, JoinWords(ws)) :
     mode \in CaseModes,
     ws \in UNION {[1..n -> DOMAIN Words] : n \in 0..MaxWords}}

\* questions handed to format_answer_prompt
PromptQuestions ==
  {<<>>, <<"g","o">>, <<"G","o"," ","S","D","K">>}

\* questions handed to ask
AskQuestions == ExampleQuestions \cup PromptQuestions

FetchedUrls == {"https://docs.featbit.co/sdk/overview", "https://github.com/featbit/featbit-go-sdk"}

\* fetched documents, each the lines of its text
FetchedTexts == {<<"">>, <<"FeatBit">>, <<"Install", "go get">>}

FetchedContents == [url : FetchedUrls, content : FetchedTexts]

PageContents == UNION {[1..n -> FetchedContents] : n \in 0..MaxDocs}

\* ---------------------------------------------------------------- state
VARIABLES
  op,             \* the call that returned last
  question,       \* its question argument
  platform,       \* find_pages: the local platform
  category,       \* find_pages: the local category
  results,        \* find_pages: the list returned
  urls,           \* get_all_pages: the list returned
  answer,         \* ask: the dictionary returned
  page_contents,  \* format_answer_prompt: its page_contents argument
  prompt          \* format_answer_prompt: the lines of the string returned

vars == <<op, question, platform, category, results, urls, answer, page_contents, prompt>>

NoAnswer == [question |-> <<>>, pages |-> <<>>, fetch_needed |-> FALSE, timestamp |-> 0]

Init ==
  /\ op = "none"
  /\ question = <<>>
  /\ platform = None
  /\ category = None
  /\ results = <<>>
  /\ urls = <<>>
  /\ answer = NoAnswer
  /\ page_contents = <<>>
  /\ prompt = <<>>

\* FeatBitDocFinder.find_pages(question)
FindPages ==
  /\ op = "none"
  /\ \E q \in Questions :
       /\ op' = "find_pages"
       /\ question' = q
       /\ platform' = DetectPlatform(lower(q))
       /\ category' = DetectCategory(lower(q))
       /\ results' = Fallback(CombineResults(category', platform'))
       /\ urls' = <<>>
       /\ answer' = NoAnswer
       /\ page_contents' = <<>>
       /\ prompt' = <<>>

\* FeatBitDocFinder.get_all_pages()
GetAllPages ==
  /\ op = "none"
  /\ \E seed \in 0..MaxSeed :
       /\ op' = "get_all_pages"
       /\ urls' = get_all_pages(seed)
       /\ question' = <<>>
       /\ platform' = None
       /\ category' = None
       /\ results' = <<>>
       /\ answer' = NoAnswer
       /\ page_contents' = <<>>
       /\ prompt' = <<>>

\* FeatBitAnswer.ask(question)
Ask ==
  /\ op = "none"
  /\ \E q \in AskQuestions, now \in 0..MaxClock :
       /\ op' = "ask"
       /\ question' = q
       /\ answer' = ask(q, now)
       /\ platform' = None
       /\ category' = None
       /\ results' = <<>>
       /\ urls' = <<>>
       /\ page_contents' = <<>>
       /\ prompt' = <<>>

\* FeatBitAnswer.format_answer_prompt(question, page_contents)
FormatAnswerPrompt ==
  /\ op = "none"
  /\ \E q \in PromptQuestions, contents \in PageContents :
       /\ op' = "format_answer_prompt"
       /\ question' = q
       /\ page_contents' = contents
       /\ prompt' = format_answer_prompt(q, contents)
       /\ platform' = None
       /\ category' = None
       /\ results' = <<>>
       /\ urls' = <<>>
       /\ answer' = NoAnswer

Next == FindPages \/ GetAllPages \/ Ask \/ FormatAnswerPrompt

Spec == Init /\ [][Next]_vars

\* ---------------------------------------------------------------- properties
\* the tag has a trigger phrase that occurs in the lowercased question
Matches(tag) == AnyKeyword(KeywordsOf(tag), lower(question))

IsBlank(s) == \A i \in DOMAIN s : s[i] = " "

DefaultPage ==
  [url |-> "https://docs.featbit.co/docs/getting-started",
   category |-> "concepts",
   reason |-> "Default overview page"]

\* the priority order of the category predicates: keyword group, category
CategoryPriority ==
  <<[tag |-> "deployment", category |-> "deployment"],
    [tag |-> "feature", category |-> "features"],
    [tag |-> "config", category |-> "config"],
    [tag |-> "sdk", category |-> "sdk"]>>

\* the declared order of the platform tags
PlatformOrder == <<"dotnet", "javascript", "react", "node", "python", "go", "java">>

\* the platform tags that are subtopics of the sdk category
SdkPlatforms == {"javascript", "react", "node", "python", "go", "java"}

\* the result has a platform subtopic usable for the detected pair
PlatformSubtopicUsable ==
  category # None /\ platform # None /\ HasSubtopic(category, platform)

\* C1: find_pages returns a list of exactly one PageMatch for every question,
\* the empty one included, whichever branch is taken.
C1_ExactlyOneMatch ==
  op = "find_pages" =>
    /\ Len(results) = 1
    /\ DOMAIN results[1] = {"url", "category", "reason"}

C1_Witness ==
  /\ op = "find_pages"
  /\ category = "config"
  /\ platform # None
  /\ Len(results) = 1

\* C2: the category is that of the first keyword group, in the order
\* deployment, features, config, sdk, with a trigger phrase in the lowercased
\* question, and none if no group has one; a question with a deployment and a
\* feature trigger phrase yields a PageMatch of category "deployment".
C2_CategoryPriority ==
  op = "find_pages" =>
    /\ \A i \in DOMAIN CategoryPriority :
         ( /\ Matches(CategoryPriority[i].tag)
           /\ \A j \in 1..(i - 1) : ~Matches(CategoryPriority[j].tag) )
         => category = CategoryPriority[i].category
    /\ (\A i \in DOMAIN CategoryPriority : ~Matches(CategoryPriority[i].tag))
         => category = None
    /\ (Matches("deployment") /\ Matches("feature"))
         => Len(results) = 1 /\ results[1].category = "deployment"
    /\ question = DeployFeatureFlagWithDocker => results[1].category = "deployment"

C2_Witness ==
  /\ op = "find_pages"
  /\ Matches("deployment")
  /\ Matches("feature")
  /\ results[1].category = "deployment"

\* C3: the platform is the earliest tag, in the order dotnet, javascript,
\* react, node, python, go, java, with a trigger phrase in the lowercased
\* question, and none if no platform tag has one; matching tags that are not
\* platforms neither set nor stop the choice.
C3_FirstPlatform ==
  op = "find_pages" =>
    /\ platform \in PlatformKeys \cup {None}
    /\ \A i \in DOMAIN PlatformOrder :
         ( /\ Matches(PlatformOrder[i])
           /\ \A j \in 1..(i - 1) : ~Matches(PlatformOrder[j]) )
         => platform = PlatformOrder[i]
    /\ (\A i \in DOMAIN PlatformOrder : ~Matches(PlatformOrder[i]))
         => platform = None

C3_Witness ==
  /\ op = "find_pages"
  /\ Matches("sdk")
  /\ Matches("javascript")
  /\ Matches("node")
  /\ platform = "javascript"

\* C4: with a category and a platform detected and the platform a subtopic of
\* the category, the result is the one PageMatch of that subtopic's URL, the
\* category, and the reason naming category and platform; "how to use the go
\* sdk" yields the sdk/go page.
C4_PlatformExactMatch ==
  op = "find_pages" =>
    /\ PlatformSubtopicUsable =>
         results = <<[url |-> UrlOf(category, platform),
                      category |-> category,
                      reason |-> "Matched category: " \o category
                                   \o ", platform: " \o platform]>>
    /\ question = HowToUseTheGoSdk =>
         results = <<[url |-> "https://github.com/featbit/featbit-go-sdk",
                      category |-> "sdk",
                      reason |-> "Matched category: sdk, platform: go"]>>

C4_Witness ==
  /\ op = "find_pages"
  /\ question = HowToUseTheGoSdk
  /\ category = "sdk"
  /\ platform = "go"
  /\ results[1].url = UrlOf("sdk", "go")

\* C5: with a category detected, no platform subtopic to use and an overview
\* subtopic in the category, the result is the one PageMatch of the overview
\* URL, the category, and the reason naming the category only.
C5_CategoryOverview ==
  op = "find_pages" =>
    ( ( /\ category # None
        /\ (platform = None \/ ~HasSubtopic(category, platform))
        /\ HasSubtopic(category, "overview") )
      => results = <<[url |-> UrlOf(category, "overview"),
                      category |-> category,
                      reason |-> "Matched category: " \o category]>> )

C5_Witness ==
  /\ op = "find_pages"
  /\ category = "deployment"
  /\ platform = "go"
  /\ results[1].reason = "Matched category: deployment"

\* C6: the result is the fallback (one PageMatch: the default getting-started
\* URL, category "concepts", reason "Default overview page") exactly when no
\* category is detected or the category has neither the platform's subtopic
\* nor an overview, which is the config category; blank questions take it.
C6_FallbackExactly ==
  op = "find_pages" =>
    /\ results = <<DefaultPage>>
         <=> \/ category = None
             \/ ~PlatformSubtopicUsable /\ ~HasSubtopic(category, "overview")
    /\ (category # None /\ ~PlatformSubtopicUsable /\ ~HasSubtopic(category, "overview"))
         <=> category = "config"
    /\ IsBlank(question) => results = <<DefaultPage>>

C6_Witness ==
  /\ op = "find_pages"
  /\ IsBlank(question)
  /\ Len(question) > 0
  /\ results = <<DefaultPage>>

\* spellings of a question that differ from it in letter case only
CaseVariants(q) ==
  { [i \in 1..Len(q) |-> UpperChar(q[i])],
    [i \in 1..Len(q) |-> IF i % 2 = 0 THEN UpperChar(q[i]) ELSE q[i]],
    [i \in 1..Len(q) |-> IF i % 3 = 0 THEN q[i] ELSE UpperChar(q[i])] }

RECURSIVE SubtopicCount(_)
\* the number of subtopic entries of the categories from i on
SubtopicCount(i) ==
  IF i > Len(PAGES) THEN 0 ELSE Len(PAGES[i].pages) + SubtopicCount(i + 1)

CatalogUrls ==
  {PAGES[i].pages[j].url : <<i, j>> \in
     {<<a, b>> \in (DOMAIN PAGES) \X (1..10) : b \in DOMAIN PAGES[a].pages}}

\* C8: get_all_pages returns every subtopic URL of every category, none
\* twice, and fewer URLs than there are subtopic entries.
C8_AllPagesDistinct ==
  op = "get_all_pages" =>
    /\ {urls[i] : i \in DOMAIN urls} = CatalogUrls
    /\ \A a, b \in DOMAIN urls : a # b => urls[a] # urls[b]
    /\ Len(urls) < SubtopicCount(1)

C8_Witness ==
  /\ op = "get_all_pages"
  /\ SubtopicCount(1) = 30
  /\ Len(urls) = 27
  /\ \E i \in DOMAIN urls : urls[i] = "https://github.com/featbit/featbit-charts"

RECURSIVE SectionStart(_)
\* the number of lines that precede the subsection of element k
SectionStart(k) ==
  IF k = 1 THEN 6
  ELSE SectionStart(k - 1) + Len(page_contents[k - 1].content) + 5

DocumentHeaders ==
  {"## Document " \o ToString(i) \o ": " \o u : i \in 0..(Len(page_contents) + 1), u \in FetchedUrls}

\* C9: between the question header and the five requirements the prompt has
\* one subsection per element of page_contents, in input order, numbered from
\* 1: "Document {i}: {url}", the content, a separator line; with no element it
\* has the header and the requirements and no subsection.
C9_PromptSections ==
  op = "format_answer_prompt" =>
    LET n == Len(page_contents)
        tail == SectionStart(n + 1)
    IN  /\ Len(prompt) = tail + 7
        /\ prompt[3] = "Question: " \o Join(question)
        /\ prompt[5] = "Official Documentation Content:"
        /\ \A k \in 1..n :
             LET s == SectionStart(k)
                 text == page_contents[k].content
             IN  /\ prompt[s + 2] = "## Document " \o ToString(k) \o ": " \o page_contents[k].url
                 /\ SubSeq(prompt, s + 4, s + 3 + Len(text)) = text
                 /\ prompt[s + 5 + Len(text)] = "---"
        /\ Cardinality({i \in DOMAIN prompt : prompt[i] \in DocumentHeaders}) = n
        /\ Cardinality({i \in DOMAIN prompt : prompt[i] = "---"}) = n
        /\ prompt[tail + 2] = "Answer requirements:"
        /\ SubSeq(prompt, tail + 3, tail + 7) =
             <<"1. Answer in English (or match question language)",
               "2. Provide direct answer, do not repeat the question",
               "3. If code is involved, provide runnable code examples",
               "4. Must attach source links at the end of answer",
               "5. If no answer in docs, say \"information not found in official documentation\"">>

C9_Witness ==
  /\ op = "format_answer_prompt"
  /\ Len(page_contents) = 2
  /\ page_contents[1].url # page_contents[2].url
  /\ Len(page_contents[1].content) = 2
  /\ Len(question) > 0

\* the result names a platform in its reason
PlatformSpecific ==
  \E p \in PlatformKeys :
    results[1].reason = "Matched category: " \o results[1].category \o ", platform: " \o p

\* C10: the result is platform-specific exactly when the category is sdk and
\* the platform is javascript, react, node, python, go or java; with dotnet,
\* or with deployment, features or config, the platform is ignored and the
\* result is the category overview or the fallback; the category returned is
\* sdk, deployment, features or concepts, never config.
C10_PlatformOnlyForSdk ==
  op = "find_pages" =>
    /\ PlatformSpecific <=> (category = "sdk" /\ platform \in SdkPlatforms)
    /\ (platform = "dotnet" \/ category \in {"deployment", "features", "config"})
         => \/ results = <<DefaultPage>>
            \/ /\ HasSubtopic(category, "overview")
               /\ results = <<[url |-> UrlOf(category, "overview"),
                               category |-> category,
                               reason |-> "Matched category: " \o category]>>
    /\ results[1].category \in {"sdk", "deployment", "features", "concepts"}

C10_Witness ==
  /\ op = "find_pages"
  /\ category = "sdk"
  /\ platform = "dotnet"
  /\ results[1].url = "https://docs.featbit.co/sdk/overview"

====
